---------------------------- MODULE Spec2Model ----------------------------
(***************************************************************************)
(* Model of the CSS and HTML renderers of hypertext-garnish                *)
(* (src/src/css.rs, src/src/html.rs).                                      *)
(*                                                                         *)
(* Strings are TLA+ strings: format!/join are \o, str::contains is a       *)
(* substring search over SubSeq.  The to_string implementations are        *)
(* operators that compute the text the way the Rust code does; the         *)
(* worklist loop of Rule::make_string is a state machine of its own.       *)
(* Every specification draws one input value in Init and renders it;      *)
(* SpecAgain renders it again and again.                                   *)
(***************************************************************************)
EXTENDS Naturals, Sequences, FiniteSets, TLC

VARIABLES
    input,      \* the value to_string is called on (never written after Init)
    pc,         \* "start" | "loop" | "done"
    all_rules,  \* Rule::make_string: Vec<String> of the emitted blocks
    sub_rules,  \* Rule::make_string: the pending Vec<(String, &Vec<Rule>)>
    output      \* the String returned by to_string

vars == <<input, pc, all_rules, sub_rules, output>>

-----------------------------------------------------------------------------
(* Bounds of the input sets.                                               *)

\* longest Basic value drawn over ValueChars
MaxValueLen == 3
\* most arguments of a Function value
MaxArgs == 2
\* most combinators of a nested Combinator selector
MaxOps == 2
\* most members of a Chain or Group selector
MaxItems == 3
\* most rules of a Rule tree, the rendered rule included
MaxRules == 5
\* most RuleSets nested, at any depth, below the rendered RuleSet
MaxSubSets == 2
\* most nodes of an HTML Node tree, the rendered node included
MaxHtmlNodes == 3

-----------------------------------------------------------------------------
(* String helpers: the std library calls the code makes.                   *)

\* str::contains(pat)
Contains(s, pat) ==
    \E i \in 1..(Len(s) + 1) :
        /\ i + Len(pat) - 1 <= Len(s)
        /\ SubSeq(s, i, i + Len(pat) - 1) = pat

RECURSIVE Join(_, _)
\* [String]::join(sep)
Join(strs, sep) ==
    IF Len(strs) = 0 THEN ""
    ELSE IF Len(strs) = 1 THEN strs[1]
    ELSE strs[1] \o sep \o Join(Tail(strs), sep)

-----------------------------------------------------------------------------
(* DeclarationValue, Declaration                                           *)

Basic(s) == [type |-> "Basic", value |-> s]
Function(name, args) == [type |-> "Function", name |-> name, args |-> args]
Declaration(property, value) == [property |-> property, value |-> value]

\* BasicToString with the quoting arm dropped
BasicToStringNeverQuoted(s) == s

\* the two Basic arms: quoted when the value contains a space
BasicToString(s) ==
    IF Contains(s, " ") THEN "\"" \o s \o "\"" ELSE s

\* FunctionToString with every argument rendered like a Basic value
FunctionToStringQuoted(name, args) ==
    name \o "(" \o Join([i \in 1..Len(args) |-> BasicToString(args[i])], ",") \o ")"

\* the Function arm: name(args joined by ",")
FunctionToString(name, args) ==
    name \o "(" \o Join(args, ",") \o ")"

DeclarationValueToString(v) ==
    IF v.type = "Basic" THEN BasicToString(v.value)
    ELSE FunctionToString(v.name, v.args)

DeclarationToString(d) ==
    d.property \o ":" \o DeclarationValueToString(d.value) \o ";"

-----------------------------------------------------------------------------
(* Combinator, Selector                                                    *)

Combinators == {"Descendant", "Child", "AdjacentSibling", "GeneralSibling"}

Universal == [type |-> "Universal"]
Tag(s) == [type |-> "Tag", name |-> s]
Class(s) == [type |-> "Class", name |-> s]
Id(s) == [type |-> "Id", name |-> s]
Combinator(base, op, relative) ==
    [type |-> "Combinator", base |-> base, op |-> op, relative |-> relative]
PseudoClass(base, class) == [type |-> "PseudoClass", base |-> base, name |-> class]
PseudoElement(base, class) == [type |-> "PseudoElement", base |-> base, name |-> class]
Attribute(attr) == [type |-> "Attribute", name |-> attr]
AttributeValue(attr, value) == [type |-> "AttributeValue", name |-> attr, value |-> value]
AttributeContains(attr, value) ==
    [type |-> "AttributeContains", name |-> attr, value |-> value]
Chain(items) == [type |-> "Chain", items |-> items]
Group(items) == [type |-> "Group", items |-> items]

\* CombinatorSymbol with the Descendant arm yielding the empty string
CombinatorSymbolNoSpace(op) ==
    CASE op = "Descendant" -> ""
      [] op = "Child" -> ">"
      [] op = "AdjacentSibling" -> "+"
      [] op = "GeneralSibling" -> "~"

\* CombinatorSymbol with the symbols padded the way hand-written CSS is
CombinatorSymbolPadded(op) ==
    CASE op = "Descendant" -> " "
      [] op = "Child" -> " > "
      [] op = "AdjacentSibling" -> " + "
      [] op = "GeneralSibling" -> " ~ "

\* the inner match on the combinator
CombinatorSymbol(op) ==
    CASE op = "Descendant" -> " "
      [] op = "Child" -> ">"
      [] op = "AdjacentSibling" -> "+"
      [] op = "GeneralSibling" -> "~"

\* GroupSeparator as hand-written CSS has it
GroupSeparatorPadded == ", "

\* the separator the Group arm joins with
GroupSeparator == ","

\* ChainSeparator as a descendant list would have it
ChainSeparatorSpace == " "

\* the separator the Chain arm joins with
ChainSeparator == ""

RECURSIVE SelectorToString(_)
SelectorToString(s) ==
    CASE s.type = "Universal" -> "*"
      [] s.type = "Tag" -> s.name
      [] s.type = "Id" -> "#" \o s.name
      [] s.type = "Class" -> "." \o s.name
      [] s.type = "Combinator" ->
            SelectorToString(s.base) \o CombinatorSymbol(s.op)
                \o SelectorToString(s.relative)
      [] s.type = "PseudoClass" -> SelectorToString(s.base) \o ":" \o s.name
      [] s.type = "PseudoElement" -> SelectorToString(s.base) \o "::" \o s.name
      [] s.type = "Attribute" -> "[" \o s.name \o "]"
      [] s.type = "AttributeValue" ->
            "[" \o s.name \o "=\"" \o s.value \o "\"]"
      [] s.type = "AttributeContains" ->
            "[" \o s.name \o "~=\"" \o s.value \o "\"]"
      [] s.type = "Chain" ->
            Join([i \in 1..Len(s.items) |-> SelectorToString(s.items[i])],
                 ChainSeparator)
      [] s.type = "Group" ->
            Join([i \in 1..Len(s.items) |-> SelectorToString(s.items[i])],
                 GroupSeparator)

-----------------------------------------------------------------------------
(* Rule and the flattening of its sub_rules                                *)

Rule(selector, declarations, rules) ==
    [selector |-> selector, declarations |-> declarations, sub_rules |-> rules]

\* the declarations mapped through Declaration::to_string and joined by ""
DeclarationsText(rule) ==
    Join([i \in 1..Len(rule.declarations) |->
            DeclarationToString(rule.declarations[i])], "")

\* format!("{}{}{{{}}}", prefix, selector, declarations); the rule's own block
\* is the same text with no prefix
Block(prefix, rule) ==
    prefix \o SelectorToString(rule.selector) \o "{" \o DeclarationsText(rule) \o "}"

\* ChildPrefix with the ancestors' prefix dropped
ChildPrefixParentOnly(prefix, rule) ==
    SelectorToString(rule.selector) \o ">"

\* format!("{}{}>", prefix, selector): the prefix pushed for a rule's sub_rules
ChildPrefix(prefix, rule) ==
    prefix \o SelectorToString(rule.selector) \o ">"

Pending(prefix, rules) == [prefix |-> prefix, rules |-> rules]

\* the state before the while loop
MakeStringStart(rule) ==
    [all_rules |-> <<Block("", rule)>>,
     sub_rules |-> <<Pending(ChildPrefix("", rule), rule.sub_rules)>>]

\* ForRule with the is_empty test dropped
ForRuleAlwaysPushes(st, prefix, rule) ==
    [all_rules |-> Append(st.all_rules, Block(prefix, rule)),
     sub_rules |-> Append(st.sub_rules,
                          Pending(ChildPrefix(prefix, rule), rule.sub_rules))]

\* the body of the for loop, for one rule of the popped sibling list
ForRule(st, prefix, rule) ==
    [all_rules |-> Append(st.all_rules, Block(prefix, rule)),
     sub_rules |-> IF rule.sub_rules # <<>>
                   THEN Append(st.sub_rules,
                               Pending(ChildPrefix(prefix, rule), rule.sub_rules))
                   ELSE st.sub_rules]

RECURSIVE ForRulesReversed(_, _, _, _)
\* ForRules walking the sibling list from its end
ForRulesReversed(st, prefix, rules, i) ==
    IF i > Len(rules) THEN st
    ELSE ForRulesReversed(ForRule(st, prefix, rules[Len(rules) + 1 - i]),
                          prefix, rules, i + 1)

RECURSIVE ForRules(_, _, _, _)
\* for rule in rules, from the i-th on
ForRules(st, prefix, rules, i) ==
    IF i > Len(rules) THEN st
    ELSE ForRules(ForRule(st, prefix, rules[i]), prefix, rules, i + 1)

\* Vec::pop takes the last pending entry
PopIndex(pending) == Len(pending)

\* WhileBody taking one rule of the popped list and putting the rest of the
\* list back, below what that rule adds
WhileBodyOneRule(st) ==
    LET i == PopIndex(st.sub_rules)
        top == st.sub_rules[i]
        rest == SubSeq(st.sub_rules, 1, i - 1)
                    \o SubSeq(st.sub_rules, i + 1, Len(st.sub_rules))
    IN  IF top.rules = <<>>
        THEN [all_rules |-> st.all_rules, sub_rules |-> rest]
        ELSE ForRule([all_rules |-> st.all_rules,
                      sub_rules |-> IF Len(top.rules) > 1
                                    THEN Append(rest, Pending(top.prefix, Tail(top.rules)))
                                    ELSE rest],
                     top.prefix, Head(top.rules))

\* one iteration of while let Some((prefix, rules)) = sub_rules.pop()
WhileBody(st) ==
    LET i == PopIndex(st.sub_rules)
        top == st.sub_rules[i]
        rest == SubSeq(st.sub_rules, 1, i - 1)
                    \o SubSeq(st.sub_rules, i + 1, Len(st.sub_rules))
    IN  ForRules([all_rules |-> st.all_rules, sub_rules |-> rest],
                 top.prefix, top.rules, 1)

RECURSIVE MakeStringLoop(_)
\* the while loop, run until pop returns None
MakeStringLoop(st) ==
    IF st.sub_rules = <<>> THEN st ELSE MakeStringLoop(WhileBody(st))

\* Rule::make_string, which Rule::to_string returns
make_string(rule) ==
    Join(MakeStringLoop(MakeStringStart(rule)).all_rules, "")

-----------------------------------------------------------------------------
(* MediaFeature, MediaCondition, MediaQuery, RuleSet                       *)

MediaFeature(property, value) == [property |-> property, value |-> value]
Lone(f) == [type |-> "Lone", f1 |-> f]
And(f1, f2) == [type |-> "And", f1 |-> f1, f2 |-> f2]
Or(f1, f2) == [type |-> "Or", f1 |-> f1, f2 |-> f2]
Not(f1, f2) == [type |-> "Not", f1 |-> f1, f2 |-> f2]
MediaQuery(constraint, media_type, features) ==
    [media_type |-> media_type, constraint |-> constraint, features |-> features]
None == [some |-> FALSE]
Some(q) == [some |-> TRUE, value |-> q]
RuleSet(rules, sub_sets, media_query) ==
    [media_query |-> media_query, rules |-> rules, sub_sets |-> sub_sets]

MediaConstraints == {"None", "Only", "Not"}

\* MediaFeatureToString with the parentheses left to the condition
MediaFeatureToStringBare(f) == f.property \o ":" \o f.value

MediaFeatureToString(f) == "(" \o f.property \o ":" \o f.value \o ")"

MediaConditionToString(c) ==
    CASE c.type = "Lone" -> MediaFeatureToString(c.f1)
      [] c.type = "And" ->
            MediaFeatureToString(c.f1) \o " and " \o MediaFeatureToString(c.f2)
      [] c.type = "Or" ->
            MediaFeatureToString(c.f1) \o " or " \o MediaFeatureToString(c.f2)
      [] c.type = "Not" ->
            MediaFeatureToString(c.f1) \o " not " \o MediaFeatureToString(c.f2)

\* match query.constraint
ConstraintPrefix(constraint) ==
    CASE constraint = "None" -> ""
      [] constraint = "Only" -> "only "
      [] constraint = "Not" -> "not "

\* FeatureSuffix with the conditions joined by " and "
FeatureSuffixJoinedByAnd(features) ==
    IF Len(features) = 0 THEN ""
    ELSE " and " \o Join([i \in 1..Len(features) |->
                            MediaConditionToString(features[i])], " and ")

\* match query.features.len()
FeatureSuffix(features) ==
    IF Len(features) = 0 THEN ""
    ELSE " and " \o Join([i \in 1..Len(features) |->
                            MediaConditionToString(features[i])], "")

\* AllSets with the sub_sets ahead of the rules
AllSetsSubSetsFirst(rules_text, sub_sets_text) == sub_sets_text \o rules_text

\* let all_sets = format!("{}{}", rules joined, sub_sets joined)
AllSets(rules_text, sub_sets_text) == rules_text \o sub_sets_text

\* the Some(query) arm: format!("@media {}{}{}{{{}}}", ...)
MediaWrap(query, all_sets) ==
    "@media " \o ConstraintPrefix(query.constraint) \o query.media_type
        \o FeatureSuffix(query.features) \o "{" \o all_sets \o "}"

RECURSIVE RuleSetToString(_)
RuleSetToString(set) ==
    LET all_sets ==
            AllSets(Join([i \in 1..Len(set.rules) |-> make_string(set.rules[i])], ""),
                    Join([i \in 1..Len(set.sub_sets) |->
                            RuleSetToString(set.sub_sets[i])], ""))
    IN  IF ~set.media_query.some THEN all_sets
        ELSE MediaWrap(set.media_query.value, all_sets)

-----------------------------------------------------------------------------
(* HTML: Attribute, Node (src/src/html.rs)                                 *)

\* Attribute { name, value }: Attribute::new gives Some(value), toggle None
HtmlAttribute(name, value) == [name |-> name, value |-> value]
Text(s) == [type |-> "Text", text |-> s]
Element(tag, attributes, children) ==
    [type |-> "Element", tag |-> tag, attributes |-> attributes, children |-> children]

\* HtmlAttributeToString with an empty value treated like a missing one
HtmlAttributeToStringEmptyIsBare(a) ==
    IF a.value.some /\ a.value.value # ""
    THEN a.name \o "=\"" \o a.value.value \o "\""
    ELSE a.name

\* Attribute::to_string
HtmlAttributeToString(a) ==
    IF a.value.some THEN a.name \o "=\"" \o a.value.value \o "\"" ELSE a.name

\* OpenTag with the one format string for both arms
OpenTagAlwaysSpaced(tag, attributes) ==
    "<" \o tag \o " "
        \o Join([i \in 1..Len(attributes) |-> HtmlAttributeToString(attributes[i])], " ")
        \o ">"

\* let open_tag = match attributes.is_empty()
OpenTag(tag, attributes) ==
    IF Len(attributes) = 0 THEN "<" \o tag \o ">"
    ELSE "<" \o tag \o " "
            \o Join([i \in 1..Len(attributes) |->
                        HtmlAttributeToString(attributes[i])], " ")
            \o ">"

RECURSIVE NodeToString(_)
\* Node::to_string
NodeToString(n) ==
    IF n.type = "Text" THEN n.text
    ELSE LET child_text ==
                 Join([i \in 1..Len(n.children) |-> NodeToString(n.children[i])], "")
         IN  OpenTag(n.tag, n.attributes) \o child_text \o "</" \o n.tag \o ">"

-----------------------------------------------------------------------------
(* Input sets.                                                             *)

\* sequences over S of length at most n
SeqUpTo(S, n) == UNION {[1..k -> S] : k \in 0..n}

ValueChars == {"a", " ", "\""}

RECURSIVE StringsOfLen(_)
StringsOfLen(n) ==
    IF n = 0 THEN {""}
    ELSE {c \o s : c \in ValueChars, s \in StringsOfLen(n - 1)}

BasicValues ==
    UNION {StringsOfLen(n) : n \in 0..MaxValueLen} \cup {"blue", "Times New Roman"}

ArgValues == {"200", "a b", ""}

Properties == {"color", "font-family"}

Declarations ==
    {Declaration(p, Basic(v)) : p \in Properties, v \in BasicValues}
    \cup {Declaration(p, Function("rgb", a)) :
            p \in Properties, a \in SeqUpTo(ArgValues, MaxArgs)}

Leaves ==
    {Universal, Tag("a"), Class("b"), Id("c"), Attribute("t"),
     AttributeValue("t", "v"), AttributeContains("t", "v")}

\* the operands at the leaves of the nested Combinator inputs
OperandLeaves == {Tag("a"), Class("b")}

RECURSIVE CombinatorTrees(_)
\* the Combinator trees over OperandLeaves with exactly k combinators
CombinatorTrees(k) ==
    IF k = 0 THEN OperandLeaves
    ELSE UNION {{Combinator(l, op, r) :
                    l \in CombinatorTrees(i), op \in Combinators,
                    r \in CombinatorTrees(k - 1 - i)} :
                i \in 0..(k - 1)}

\* the members of the Chain and Group inputs, compound ones included
Members ==
    {Tag("a"), Class("b"), Chain(<<>>), Group(<<Tag("a"), Id("c")>>),
     Combinator(Tag("a"), "Descendant", Class("b"))}

Selectors ==
    Leaves
    \cup {PseudoClass(b, "hover") : b \in Leaves}
    \cup {PseudoElement(b, "first-line") : b \in Leaves}
    \cup UNION {CombinatorTrees(k) : k \in 1..MaxOps}
    \cup {Chain(l) : l \in SeqUpTo(Members, MaxItems)}
    \cup {Group(l) : l \in SeqUpTo(Members, MaxItems)}

\* (selector, declarations) of the rules of the Rule inputs
RuleLabels ==
    {[selector |-> Tag("a"),
      declarations |-> <<Declaration("color", Basic("blue")),
                         Declaration("font-family", Basic("Times New Roman"))>>],
     [selector |-> Class("b"), declarations |-> <<>>]}

RECURSIVE RuleTrees(_), RuleForests(_)
\* the Rule trees of exactly n rules
RuleTrees(n) ==
    {Rule(l.selector, l.declarations, f) : l \in RuleLabels, f \in RuleForests(n - 1)}

\* the sub_rules lists of exactly m rules in total
RuleForests(m) ==
    IF m = 0 THEN {<<>>}
    ELSE UNION {{<<r>> \o f : r \in RuleTrees(k), f \in RuleForests(m - k)} :
                k \in 1..m}

Rules == UNION {RuleTrees(n) : n \in 1..MaxRules}

Body == Rule(Tag("body"), <<Declaration("color", Basic("blue"))>>, <<>>)

Section ==
    Rule(Tag("section"), <<Declaration("background-color", Basic("red"))>>,
         <<Rule(Tag("h1"), <<>>, <<>>)>>)

MaxWidth == MediaFeature("max-width", "1000px")
Landscape == MediaFeature("orientation", "landscape")

FeatureLists ==
    {<<>>, <<Lone(MaxWidth)>>, <<And(MaxWidth, Landscape)>>,
     <<Or(MaxWidth, Landscape), Not(MaxWidth, Landscape)>>}

\* the media_query of the rendered RuleSet
Queries ==
    {None} \cup {Some(MediaQuery(c, "screen", f)) :
                    c \in MediaConstraints, f \in FeatureLists}

\* the media_query of a nested RuleSet
SubQueries ==
    {None, Some(MediaQuery("None", "print", <<>>)),
     Some(MediaQuery("Only", "screen", <<Lone(MaxWidth)>>))}

RECURSIVE SubSetTrees(_), SubSetForests(_)
\* the nested RuleSets of exactly n RuleSets
SubSetTrees(n) ==
    {RuleSet(r, f, q) :
        r \in {<<>>, <<Body>>}, f \in SubSetForests(n - 1), q \in SubQueries}

\* the sub_sets lists of exactly m RuleSets in total
SubSetForests(m) ==
    IF m = 0 THEN {<<>>}
    ELSE UNION {{<<s>> \o f : s \in SubSetTrees(k), f \in SubSetForests(m - k)} :
                k \in 1..m}

RuleSets ==
    {RuleSet(r, f, q) :
        r \in {<<>>, <<Body, Section>>},
        f \in UNION {SubSetForests(m) : m \in 0..MaxSubSets},
        q \in Queries}

MediaFeatures ==
    {MediaFeature(p, v) :
        p \in {"max-width", "orientation"}, v \in {"1000px", "landscape", ""}}

MediaConditions ==
    {Lone(f) : f \in MediaFeatures}
    \cup {And(f1, f2) : f1 \in MediaFeatures, f2 \in MediaFeatures}
    \cup {Or(f1, f2) : f1 \in MediaFeatures, f2 \in MediaFeatures}
    \cup {Not(f1, f2) : f1 \in MediaFeatures, f2 \in MediaFeatures}

AttributeNames == {"class", "disabled", "width"}

HtmlAttributes ==
    {HtmlAttribute(n, None) : n \in AttributeNames}
    \cup {HtmlAttribute(n, Some(v)) : n \in AttributeNames, v \in BasicValues}

\* the attribute lists of the Element inputs
AttributeLists ==
    {<<>>,
     <<HtmlAttribute("class", Some("my-class"))>>,
     <<HtmlAttribute("class", Some("my-class")), HtmlAttribute("disabled", None),
       HtmlAttribute("width", Some(""))>>}

RECURSIVE NodeTrees(_), NodeForests(_)
\* the Node trees of exactly n nodes
NodeTrees(n) ==
    (IF n = 1 THEN {Text("Some text"), Text("")} ELSE {})
    \cup {Element(t, a, c) :
            t \in {"body", "h1"}, a \in AttributeLists, c \in NodeForests(n - 1)}

\* the children lists of exactly m nodes in total
NodeForests(m) ==
    IF m = 0 THEN {<<>>}
    ELSE UNION {{<<c>> \o f : c \in NodeTrees(k), f \in NodeForests(m - k)} :
                k \in 1..m}

Nodes == UNION {NodeTrees(n) : n \in 1..MaxHtmlNodes}

-----------------------------------------------------------------------------
(* Specifications.                                                         *)

Idle ==
    /\ pc = "start"
    /\ all_rules = <<>>
    /\ sub_rules = <<>>
    /\ output = ""

\* Declaration::to_string
InitDeclaration == input \in Declarations /\ Idle

RenderDeclaration ==
    /\ pc = "start"
    /\ output' = DeclarationToString(input)
    /\ pc' = "done"
    /\ UNCHANGED <<input, all_rules, sub_rules>>

NextDeclaration == RenderDeclaration

SpecDeclaration == InitDeclaration /\ [][NextDeclaration]_vars

\* Selector::to_string
InitSelector == input \in Selectors /\ Idle

RenderSelector ==
    /\ pc = "start"
    /\ output' = SelectorToString(input)
    /\ pc' = "done"
    /\ UNCHANGED <<input, all_rules, sub_rules>>

NextSelector == RenderSelector

SpecSelector == InitSelector /\ [][NextSelector]_vars

\* Rule::to_string: the worklist loop of make_string, one iteration a step
InitRule == input \in Rules /\ Idle

\* StartRule with the blocks pushed onto whatever all_rules already holds
StartRuleKeepsBlocks ==
    /\ pc = "start"
    /\ all_rules' = all_rules \o MakeStringStart(input).all_rules
    /\ sub_rules' = MakeStringStart(input).sub_rules
    /\ pc' = "loop"
    /\ UNCHANGED <<input, output>>

\* let mut all_rules, let mut sub_rules: the first block and the seed of
\* the pending list
StartRule ==
    /\ pc = "start"
    /\ all_rules' = MakeStringStart(input).all_rules
    /\ sub_rules' = MakeStringStart(input).sub_rules
    /\ pc' = "loop"
    /\ UNCHANGED <<input, output>>

\* pop returned Some: the popped sibling list is emitted
PopRules ==
    /\ pc = "loop"
    /\ sub_rules # <<>>
    /\ LET st == WhileBody([all_rules |-> all_rules, sub_rules |-> sub_rules])
       IN  /\ all_rules' = st.all_rules
           /\ sub_rules' = st.sub_rules
    /\ UNCHANGED <<input, pc, output>>

\* pop returned None: all_rules.join("")
JoinRules ==
    /\ pc = "loop"
    /\ sub_rules = <<>>
    /\ output' = Join(all_rules, "")
    /\ pc' = "done"
    /\ UNCHANGED <<input, all_rules, sub_rules>>

NextRule == StartRule \/ PopRules \/ JoinRules

SpecRule == InitRule /\ [][NextRule]_vars

\* make_string is straight-line code around one loop: a step that can be
\* taken is taken
SpecRuleFair == SpecRule /\ WF_vars(NextRule)

\* RuleSet::to_string
InitRuleSet == input \in RuleSets /\ Idle

RenderRuleSet ==
    /\ pc = "start"
    /\ output' = RuleSetToString(input)
    /\ pc' = "done"
    /\ UNCHANGED <<input, all_rules, sub_rules>>

NextRuleSet == RenderRuleSet

SpecRuleSet == InitRuleSet /\ [][NextRuleSet]_vars

\* html::Attribute::to_string
InitAttribute == input \in HtmlAttributes /\ Idle

RenderAttribute ==
    /\ pc = "start"
    /\ output' = HtmlAttributeToString(input)
    /\ pc' = "done"
    /\ UNCHANGED <<input, all_rules, sub_rules>>

NextAttribute == RenderAttribute

SpecAttribute == InitAttribute /\ [][NextAttribute]_vars

\* Node::to_string
InitNode == input \in Nodes /\ Idle

RenderNode ==
    /\ pc = "start"
    /\ output' = NodeToString(input)
    /\ pc' = "done"
    /\ UNCHANGED <<input, all_rules, sub_rules>>

NextNode == RenderNode

SpecNode == InitNode /\ [][NextNode]_vars

\* MediaCondition::to_string
InitMediaCondition == input \in MediaConditions /\ Idle

RenderMediaCondition ==
    /\ pc = "start"
    /\ output' = MediaConditionToString(input)
    /\ pc' = "done"
    /\ UNCHANGED <<input, all_rules, sub_rules>>

NextMediaCondition == RenderMediaCondition

SpecMediaCondition == InitMediaCondition /\ [][NextMediaCondition]_vars

\* to_string called again and again on one Rule, RuleSet or Node: the caller
\* keeps the returned String in output, and what a call left in all_rules and
\* sub_rules is what the next call finds before it makes its own
IsRule(v) == "selector" \in DOMAIN v
IsRuleSet(v) == "rules" \in DOMAIN v
IsNode(v) == "type" \in DOMAIN v

InitAgain == input \in Rules \cup RuleSets \cup Nodes /\ Idle

CallRule == IsRule(input) /\ NextRule

CallRuleSet == IsRuleSet(input) /\ RenderRuleSet

CallNode == IsNode(input) /\ RenderNode

\* to_string(&self) has returned; the same value is rendered once more
CallAgain ==
    /\ pc = "done"
    /\ pc' = "start"
    /\ UNCHANGED <<input, all_rules, sub_rules, output>>

NextAgain == CallRule \/ CallRuleSet \/ CallNode \/ CallAgain

SpecAgain == InitAgain /\ [][NextAgain]_vars

-----------------------------------------------------------------------------
(* Helpers of the properties: written from the statements, not from the    *)
(* renderer, so that the two can disagree.                                 *)

HasSpace(s) == \E i \in 1..Len(s) : SubSeq(s, i, i) = " "

RECURSIVE Separated(_, _)
\* strs[1] + sep + ... + sep + strs[n], built from the right end
Separated(strs, sep) ==
    IF Len(strs) = 0 THEN ""
    ELSE IF Len(strs) = 1 THEN strs[1]
    ELSE Separated(SubSeq(strs, 1, Len(strs) - 1), sep) \o sep \o strs[Len(strs)]

Rendered == pc = "done"

-----------------------------------------------------------------------------
(* Properties of Selector::to_string (SpecSelector).                       *)

\* C6 as stated: Combinator(left, Descendant, right) renders as render(left)
\* immediately followed by render(right), the Descendant combinator
\* contributing the empty string.
C6_DescendantIsEmpty ==
    (Rendered /\ input.type = "Combinator" /\ input.op = "Descendant") =>
        output = SelectorToString(input.base) \o SelectorToString(input.relative)

\* C6 amended: Combinator(left, Descendant, right) renders as render(left),
\* one space, render(right): the Descendant combinator contributes " ".
C6_DescendantIsSpace ==
    (Rendered /\ input.type = "Combinator" /\ input.op = "Descendant") =>
        output = SelectorToString(input.base) \o " " \o SelectorToString(input.relative)

C6_Witness ==
    /\ Rendered
    /\ input = Combinator(Tag("a"), "Descendant", Class("b"))
    /\ output = "a .b"

\* C7: for op in {Child, AdjacentSibling, GeneralSibling},
\* render(Combinator(A, op, B)) = render(A) + sym(op) + render(B) with sym
\* ">", "+", "~" and no whitespace around the symbol, also when A or B is
\* itself a Combinator.
C7_CombinatorSymbols ==
    (Rendered /\ input.type = "Combinator" /\ input.op # "Descendant") =>
        LET sym == CASE input.op = "Child" -> ">"
                     [] input.op = "AdjacentSibling" -> "+"
                     [] input.op = "GeneralSibling" -> "~"
        IN  output = SelectorToString(input.base) \o sym
                        \o SelectorToString(input.relative)

C7_Witness ==
    /\ Rendered
    /\ input = Combinator(Combinator(Tag("a"), "Child", Class("b")),
                          "GeneralSibling", Tag("a"))
    /\ output = "a>.b~a"

\* C10: render(Group([S1..Sn])) = render(S1) + "," + ... + "," + render(Sn),
\* the members in the given order, one comma between neighbours, none
\* leading or trailing, and the empty string for the empty list.
C10_GroupCommaSeparated ==
    (Rendered /\ input.type = "Group") =>
        /\ output = Separated([i \in 1..Len(input.items) |->
                                  SelectorToString(input.items[i])], ",")
        /\ (input.items = <<>> => output = "")

C10_Witness ==
    /\ Rendered
    /\ input = Group(<<Tag("a"), Class("b"), Group(<<Tag("a"), Id("c")>>)>>)
    /\ output = "a,.b,a,#c"

\* C11: render(Chain([S1..Sn])) = render(S1) + ... + render(Sn): the members
\* in the given order, nothing between them, whatever their variants (a
\* Chain holding a Group is rendered literally).
C11_ChainConcatenated ==
    (Rendered /\ input.type = "Chain") =>
        /\ output = Separated([i \in 1..Len(input.items) |->
                                  SelectorToString(input.items[i])], "")
        /\ Len(output) = LET n[k \in 0..Len(input.items)] ==
                                IF k = 0 THEN 0
                                ELSE n[k - 1] + Len(SelectorToString(input.items[k]))
                          IN  n[Len(input.items)]

C11_Witness ==
    /\ Rendered
    /\ input = Chain(<<Tag("a"), Group(<<Tag("a"), Id("c")>>), Class("b")>>)
    /\ output = "aa,#c.b"

-----------------------------------------------------------------------------
(* Properties of Rule::to_string (SpecRule).                               *)

RECURSIVE Flatten(_)
\* the concatenation of a sequence of sequences
Flatten(seqs) ==
    IF Len(seqs) = 0 THEN <<>> ELSE Head(seqs) \o Flatten(Tail(seqs))

RECURSIVE PreorderPaths(_)
\* the rules of a tree, each named by the child indices leading to it, in
\* left-to-right preorder: the rule, then each child's subtree in turn
PreorderPaths(rule) ==
    <<<<>>>> \o Flatten([i \in 1..Len(rule.sub_rules) |->
                            LET sub == PreorderPaths(rule.sub_rules[i])
                            IN  [j \in 1..Len(sub) |-> <<i>> \o sub[j]]])

RulePaths(rule) == {PreorderPaths(rule)[i] : i \in 1..Len(PreorderPaths(rule))}

RECURSIVE RuleAt(_, _)
RuleAt(rule, path) ==
    IF path = <<>> THEN rule ELSE RuleAt(rule.sub_rules[Head(path)], Tail(path))

\* render(r0.selector) ">" ... ">" render(rk.selector) "{" declarations "}"
\* for the rule rk at the end of the ancestor path r0, ..., rk
ExpectedBlock(rule, path) ==
    LET chain == [k \in 1..(Len(path) + 1) |-> RuleAt(rule, SubSeq(path, 1, k - 1))]
        rk == chain[Len(chain)]
    IN  Separated([k \in 1..Len(chain) |-> SelectorToString(chain[k].selector)], ">")
            \o "{"
            \o Separated([d \in 1..Len(rk.declarations) |->
                            DeclarationToString(rk.declarations[d])], "")
            \o "}"

\* C1: every rule of the tree is emitted as the block whose selector text
\* is the renderings of its ancestor path r0, ..., rk joined by ">", followed
\* by "{", rk's declarations in order, "}"; the rendered rule's own block has
\* no prefix; the returned string is the blocks put together.
C1_AncestorChainSelectors ==
    Rendered =>
        /\ all_rules[1] = ExpectedBlock(input, <<>>)
        /\ \A p \in RulePaths(input) :
                \E i \in 1..Len(all_rules) : all_rules[i] = ExpectedBlock(input, p)
        /\ \A i \in 1..Len(all_rules) :
                \E p \in RulePaths(input) : all_rules[i] = ExpectedBlock(input, p)
        /\ Len(all_rules) = Cardinality(RulePaths(input))
        /\ output = Separated(all_rules, "")

C1_Witness ==
    /\ Rendered
    /\ input = Rule(Tag("a"),
                    <<Declaration("color", Basic("blue")),
                      Declaration("font-family", Basic("Times New Roman"))>>,
                    <<Rule(Class("b"), <<>>,
                           <<Rule(Tag("a"),
                                  <<Declaration("color", Basic("blue")),
                                    Declaration("font-family", Basic("Times New Roman"))>>,
                                  <<>>)>>)>>)
    /\ output = "a{color:blue;font-family:\"Times New Roman\";}"
                    \o "a>.b{}"
                    \o "a>.b>a{color:blue;font-family:\"Times New Roman\";}"

\* C2: the rule's own block comes first and the blocks of the nested rules
\* follow in left-to-right preorder of the sub_rules tree, also when a rule
\* has several children and several levels of nesting.
C2_PreorderEmission ==
    Rendered =>
        all_rules = [i \in 1..Len(PreorderPaths(input)) |->
                        ExpectedBlock(input, PreorderPaths(input)[i])]

-----------------------------------------------------------------------------
(* Properties of RuleSet::to_string (SpecRuleSet).                         *)

\* render(rule) for each rule, then render(sub_set) for each sub_set, in
\* order, nothing in between
ExpectedBody(set) ==
    Separated([i \in 1..Len(set.rules) |-> make_string(set.rules[i])], "")
        \o Separated([i \in 1..Len(set.sub_sets) |->
                        RuleSetToString(set.sub_sets[i])], "")

\* C3: without a media_query the RuleSet renders as its rules in order
\* followed by its sub_sets in order, no wrapper and no separator; a sub_set
\* without a media query contributes exactly its own body.
C3_NoQueryIsBody ==
    (Rendered /\ ~input.media_query.some) =>
        /\ output = ExpectedBody(input)
        /\ \A i \in 1..Len(input.sub_sets) :
                ~input.sub_sets[i].media_query.some =>
                    RuleSetToString(input.sub_sets[i]) = ExpectedBody(input.sub_sets[i])

C3_Witness ==
    /\ Rendered
    /\ input = RuleSet(<<Body, Section>>, <<RuleSet(<<Body>>, <<>>, None)>>, None)
    /\ output = "body{color:blue;}section{background-color:red;}section>h1{}"
                    \o "body{color:blue;}"

\* C4: with a media_query the RuleSet renders as "@media " prefix media_type
\* suffix "{" body "}": prefix "" / "only " / "not " for None / Only / Not,
\* suffix "" for no features and otherwise " and " followed by the features'
\* renderings in order with nothing between them, body as without a query.
C4_MediaWrapper ==
    (Rendered /\ input.media_query.some) =>
        LET q == input.media_query.value
            prefix == CASE q.constraint = "None" -> ""
                        [] q.constraint = "Only" -> "only "
                        [] q.constraint = "Not" -> "not "
            suffix == IF q.features = <<>> THEN ""
                      ELSE " and " \o Separated([i \in 1..Len(q.features) |->
                                    MediaConditionToString(q.features[i])], "")
        IN  output = "@media " \o prefix \o q.media_type \o suffix
                        \o "{" \o ExpectedBody(input) \o "}"

C4_Witness ==
    /\ Rendered
    /\ input = RuleSet(<<>>, <<>>,
                       Some(MediaQuery("Only", "screen",
                                       <<Or(MaxWidth, Landscape),
                                         Not(MaxWidth, Landscape)>>)))
    /\ output = "@media only screen and (max-width:1000px) or (orientation:landscape)"
                    \o "(max-width:1000px) not (orientation:landscape){}"

CharAt(s, i) == SubSeq(s, i, i)

\* the braces open after position k
BraceDepth(s, k) ==
    Cardinality({m \in 1..k : CharAt(s, m) = "{"})
        - Cardinality({m \in 1..k : CharAt(s, m) = "}"})

\* the positions of the "{" that open an "@media" block: the text between
\* the brace before (or the start) and this brace begins with "@media"
MediaBraces(s) ==
    {i \in 1..Len(s) :
        /\ CharAt(s, i) = "{"
        /\ LET before == {m \in 1..(i - 1) : CharAt(s, m) \in {"{", "}"}}
               head == IF before = {} THEN 1
                       ELSE 1 + CHOOSE m \in before : \A n \in before : n <= m
           IN  i - head >= 6 /\ SubSeq(s, head, head + 5) = "@media"}

\* the brace opened at j is still open at i
Encloses(s, j, i) ==
    j < i /\ \A k \in j..(i - 1) : BraceDepth(s, k) >= BraceDepth(s, j)

\* an "@media" block opens inside the braces of another
NestedMedia(s) ==
    \E j \in MediaBraces(s), i \in MediaBraces(s) : Encloses(s, j, i)

\* C5: no "@media" wrapper of the output appears inside the braces of
\* another "@media" wrapper, also when a RuleSet and one of its sub_sets
\* both carry a media_query.
C5_NoNestedMedia ==
    Rendered => ~NestedMedia(output)

-----------------------------------------------------------------------------
(* Properties of Declaration::to_string (SpecDeclaration).                 *)

\* C8: a Declaration with a Basic value renders as property ":" value ";"
\* with the value bare when it has no space, and as property ":" "\"" value
\* "\"" ";" (no escaping) exactly when the value has at least one space.
C8_BasicQuotedIffSpace ==
    (Rendered /\ input.value.type = "Basic") =>
        LET v == input.value.value
            bare == input.property \o ":" \o v \o ";"
            quoted == input.property \o ":\"" \o v \o "\";"
        IN  /\ HasSpace(v) => output = quoted
            /\ ~HasSpace(v) => output = bare
            /\ output = quoted => HasSpace(v)

C8_Witness ==
    /\ Rendered
    /\ input = Declaration("font-family", Basic("Times New Roman"))
    /\ output = "font-family:\"Times New Roman\";"

\* C9: Function(name, args) renders as name "(" args joined by "," ")", each
\* argument verbatim and never quoted, even one with a space; the empty
\* argument list renders name "()".
C9_FunctionArgsVerbatim ==
    (Rendered /\ input.value.type = "Function") =>
        LET f == input.value
        IN  /\ output = input.property \o ":" \o f.name \o "("
                            \o Separated(f.args, ",") \o ");"
            /\ (f.args = <<>> => output = input.property \o ":" \o f.name \o "();")

C9_Witness ==
    /\ Rendered
    /\ input = Declaration("color", Function("rgb", <<"a b", "200">>))
    /\ output = "color:rgb(a b,200);"

-----------------------------------------------------------------------------
(* Properties of the HTML renderer (SpecNode, SpecAttribute).              *)

\* C12: an Element renders as "<" tag ">" children "</" tag ">" when it has
\* no attributes (no space after the tag name) and as "<" tag " " the
\* attributes joined by one space ">" children "</" tag ">" otherwise, the
\* children concatenated in order; the closing tag is always there, also
\* for a childless element; a Text renders its string verbatim.
C12_ElementRendering ==
    Rendered =>
        IF input.type = "Text" THEN output = input.text
        ELSE LET attrs == Separated([i \in 1..Len(input.attributes) |->
                                        HtmlAttributeToString(input.attributes[i])], " ")
                 children == Separated([i \in 1..Len(input.children) |->
                                        NodeToString(input.children[i])], "")
                 close == "</" \o input.tag \o ">"
             IN  /\ input.attributes = <<>> =>
                        output = "<" \o input.tag \o ">" \o children \o close
                 /\ input.attributes # <<>> =>
                        output = "<" \o input.tag \o " " \o attrs \o ">"
                                    \o children \o close
                 /\ input.children = <<>> =>
                        SubSeq(output, Len(output) - Len(close) + 1, Len(output)) = close

C12_Witness ==
    /\ Rendered
    /\ input = Element("body", <<>>,
                       <<Element("h1", <<HtmlAttribute("class", Some("my-class"))>>, <<>>),
                         Text("Some text")>>)
    /\ output = "<body><h1 class=\"my-class\"></h1>Some text</body>"

\* C13: an HTML Attribute renders as name "=" "\"" value "\"" when it has a
\* value, the empty string included (name=""), and as the bare name, no "="
\* and no quotes, when it has none.
C13_AttributeRendering ==
    Rendered =>
        /\ input.value.some =>
                output = input.name \o "=\"" \o input.value.value \o "\""
        /\ (input.value.some /\ input.value.value = "") =>
                output = input.name \o "=\"\""
        /\ ~input.value.some => output = input.name

C13_Witness ==
    /\ Rendered
    /\ input = HtmlAttribute("width", Some(""))
    /\ output = "width=\"\""

-----------------------------------------------------------------------------
(* Properties of MediaCondition::to_string (SpecMediaCondition).           *)

\* C14: Lone(f) renders as "(" property ":" value ")"; And, Or, Not of f1,
\* f2 render as render(f1), then " and " / " or " / " not ", then render(f2):
\* each feature in parentheses of its own, one space on each side of the
\* keyword.
C14_MediaConditionRendering ==
    Rendered =>
        LET p1 == "(" \o input.f1.property \o ":" \o input.f1.value \o ")"
        IN  IF input.type = "Lone" THEN output = p1
            ELSE LET p2 == "(" \o input.f2.property \o ":" \o input.f2.value \o ")"
                     keyword == CASE input.type = "And" -> "and"
                                  [] input.type = "Or" -> "or"
                                  [] input.type = "Not" -> "not"
                 IN  output = p1 \o " " \o keyword \o " " \o p2

C14_Witness ==
    /\ Rendered
    /\ input = Not(MediaFeature("max-width", "1000px"),
                   MediaFeature("orientation", "landscape"))
    /\ output = "(max-width:1000px) not (orientation:landscape)"

-----------------------------------------------------------------------------
(* Properties of repeated rendering (SpecAgain).                           *)

-----------------------------------------------------------------------------
(* Properties of the pending list of Rule::make_string (SpecRule).         *)

RECURSIVE FifoRun(_, _, _)
\* the flattening with the pending list as a queue: the oldest pending rule
\* is taken, its sub_rules are emitted in order, and those of them that have
\* sub_rules are put at the back (rules named by their paths)
FifoRun(rule, queue, emitted) ==
    IF queue = <<>> THEN emitted
    ELSE LET p == Head(queue)
             kids == [i \in 1..Len(RuleAt(rule, p).sub_rules) |-> p \o <<i>>]
             parents == SelectSeq(kids, LAMBDA k : RuleAt(rule, k).sub_rules # <<>>)
         IN  FifoRun(rule, Tail(queue) \o parents, emitted \o kids)

FifoPaths(rule) == FifoRun(rule, <<<<>>>>, <<<<>>>>)

\* every sibling list of the tree has at most one rule with sub_rules
SingleParentLists(rule) ==
    \A p \in RulePaths(rule) :
        Cardinality({i \in 1..Len(RuleAt(rule, p).sub_rules) :
                        RuleAt(rule, p).sub_rules[i].sub_rules # <<>>}) <= 1

\* C16: for every rule tree in which each sibling list has at most one rule
\* with sub_rules, the blocks emitted with the pending list popped from the
\* end are, in the same order, the blocks a FIFO pending list emits: the
\* two differ only when some sibling list has several such rules.
C16_LifoIsFifoOnSingleParents ==
    (Rendered /\ SingleParentLists(input)) =>
        all_rules = [i \in 1..Len(FifoPaths(input)) |->
                        ExpectedBlock(input, FifoPaths(input)[i])]

C16_Witness ==
    /\ Rendered
    /\ SingleParentLists(input)
    /\ Len(input.sub_rules) = 2
    /\ input.sub_rules[1].sub_rules # <<>>
    /\ input.sub_rules[1].selector # input.sub_rules[2].selector
    /\ Len(all_rules) = MaxRules
    /\ all_rules = [i \in 1..Len(FifoPaths(input)) |->
                        ExpectedBlock(input, FifoPaths(input)[i])]

RECURSIVE NumRules(_)
\* the rules of a tree: the rule and the rules below it
NumRules(rule) ==
    LET n[k \in 0..Len(rule.sub_rules)] ==
            IF k = 0 THEN 0 ELSE n[k - 1] + NumRules(rule.sub_rules[k])
    IN  1 + n[Len(rule.sub_rules)]

Occurrences(seq, x) == Cardinality({i \in 1..Len(seq) : seq[i] = x})

\* as many blocks as rules, and each rule's block as often as there are
\* rules with that block
EachRuleOnce ==
    /\ Len(all_rules) = NumRules(input)
    /\ \A p \in RulePaths(input) :
            Occurrences(all_rules, ExpectedBlock(input, p))
                = Cardinality({q \in RulePaths(input) :
                                ExpectedBlock(input, q) = ExpectedBlock(input, p)})

\* C17 as stated: the loop terminates with an empty pending list, every rule
\* of the tree then emitted as exactly one block (as many blocks as rules,
\* none skipped, none twice), and a rule with empty sub_rules never adds a
\* pending entry.
C17_NoEntryForEmptySubRules ==
    /\ <>(pc = "done")
    /\ [](pc = "done" => (sub_rules = <<>> /\ EachRuleOnce))
    /\ [](\A k \in 1..Len(sub_rules) : sub_rules[k].rules # <<>>)

\* C17 amended: the loop terminates with an empty pending list, every rule
\* of the tree then emitted as exactly one block, and a nested rule with
\* empty sub_rules never adds a pending entry; the rendered rule's own entry
\* is added before the loop whether or not it has sub_rules.
C17_TerminatesEachRuleOnce ==
    /\ <>(pc = "done")
    /\ [](pc = "done" => (sub_rules = <<>> /\ EachRuleOnce))
    /\ [](\A k \in 1..Len(sub_rules) :
            sub_rules[k].rules = <<>> =>
                /\ input.sub_rules = <<>>
                /\ sub_rules = <<Pending(SelectorToString(input.selector) \o ">", <<>>)>>
                /\ Len(all_rules) = 1)

C17_Witness ==
    /\ pc = "done"
    /\ sub_rules = <<>>
    /\ NumRules(input) = MaxRules
    /\ Len(all_rules) = MaxRules
    /\ \E i \in 1..Len(input.sub_rules), j \in 1..Len(input.sub_rules) :
            /\ input.sub_rules[i].sub_rules # <<>>
            /\ input.sub_rules[j].sub_rules = <<>>

\* the rules of a tree that have sub_rules
Parents(rule) == {p \in RulePaths(rule) : RuleAt(rule, p).sub_rules # <<>>}

\* the children of the rule at path p, in sub_rules order
SiblingGroup(rule, p) == [i \in 1..Len(RuleAt(rule, p).sub_rules) |-> p \o <<i>>]

\* the orders of the rules of a tree that start with the root and keep each
\* sibling list together and in sub_rules order: the root, then the sibling
\* lists one after another, in any order of the lists
SiblingGroupOrders(rule) ==
    LET n == Cardinality(Parents(rule))
        lists == {s \in [1..n -> Parents(rule)] :
                    \A i, j \in 1..n : s[i] = s[j] => i = j}
    IN  {<<<<>>>> \o Flatten([k \in 1..n |-> SiblingGroup(rule, s[k])]) : s \in lists}

IsAncestor(p, q) == Len(p) < Len(q) /\ SubSeq(q, 1, Len(p)) = p

\* every rule before each of its descendants
AncestorsFirst(ord) ==
    \A i, j \in 1..Len(ord) : IsAncestor(ord[i], ord[j]) => i < j

\* a rule's next sibling is the next rule
SiblingsContiguous(ord) ==
    \A i, j \in 1..Len(ord) :
        (/\ Len(ord[i]) > 0
         /\ Len(ord[j]) = Len(ord[i])
         /\ SubSeq(ord[j], 1, Len(ord[j]) - 1) = SubSeq(ord[i], 1, Len(ord[i]) - 1)
         /\ ord[j][Len(ord[j])] = ord[i][Len(ord[i])] + 1) => j = i + 1

\* C18: the output of Rule::to_string is the blocks of the rules of the tree
\* in an order in which (1) the block of a rule comes before the block of
\* each of its descendants and (2) the blocks of the rules with the same
\* parent are next to each other, in sub_rules order, no other rule's block
\* between them.
C18_AncestorsFirstSiblingsContiguous ==
    Rendered =>
        /\ output = Separated(all_rules, "")
        /\ \E ord \in SiblingGroupOrders(input) :
                /\ all_rules = [i \in 1..Len(ord) |-> ExpectedBlock(input, ord[i])]
                /\ {ord[i] : i \in 1..Len(ord)} = RulePaths(input)
                /\ AncestorsFirst(ord)
                /\ SiblingsContiguous(ord)

C18_Witness ==
    /\ Rendered
    /\ Len(input.sub_rules) = 2
    /\ Len(input.sub_rules[1].sub_rules) = 1
    /\ Len(input.sub_rules[2].sub_rules) = 1
    /\ input.sub_rules[1].selector # input.sub_rules[2].selector
    /\ Len(all_rules) = 5

=============================================================================
